---- MODULE Spec2Model ----
(***************************************************************************)
(* A model of the Wordle program (wordle.c, lexicon.c, io.c, history.c).   *)
(*                                                                         *)
(* C strings are sequences of character codes; the character at C index i  *)
(* is element i + 1 of the sequence, and a word buffer has WORD_LEN + 1    *)
(* cells, the last one holding the terminator.  char is the signed 8-bit   *)
(* type of the x86-64 build, so byte 255 read through getc and stored in a *)
(* char becomes -1.                                                        *)
(***************************************************************************)
EXTENDS Integers, Sequences, FiniteSets, TLC

(***************************************************************************)
(* Program constants.                                                      *)
(***************************************************************************)
WORD_LEN == 5
WORD_LIMIT == 100000
INITIAL_CAPACITY == 10
NULL_TERMINATOR == 0
LOWERCASE_A == 97
LOWERCASE_Z == 122
LINE_FEED == 10
EOF == -1

\* the three colours of processWord
green == 0
yellow == 1
defaultColor == 2

(***************************************************************************)
(* Bounds of the model.                                                    *)
(***************************************************************************)
\* number of letters (a, b, ...) the enumerated guesses and targets use
NumLetters == 2
\* number of distinct words the enumerated word sources draw their records from
NumWords == 3
\* number of records of an enumerated word source with any kind of record
MaxRecords == 3
\* number of records of an enumerated word source with well-formed records only
MaxGoodRecords == 4
\* the enumerated seeds are 0..MaxSeed, and as many below the other landmarks
MaxSeed == 10
\* the enumerated list lengths are 1..MaxSize and as many up to WORD_LIMIT
MaxSize == 6
\* number of records of a word source of the whole program
MaxMainRecords == 2
\* the seeds of the whole program are 0..MaxMainSeed
MaxMainSeed == 2
\* number of valid guesses after which the player makes no further wrong guess
MaxGuesses == 1
\* the same number for the player of a long game
MaxRounds == 10

VARIABLES
    pc,                 \* position of the program
    exitStatus,         \* "running", or the status the process exited with
    stream,             \* the bytes of the word-list file
    wordList,           \* lexicon.c: static char **wordList
    wordListLen,        \* lexicon.c: static int wordListLen
    capacity,           \* readWords: int capacity
    loaded,             \* the word list as readWords left it (load order)
    recordsRead,        \* number of records readLine has returned to readWords
    seed,               \* main: long seed, as digits in base LimbBase
    chosenIndex,        \* chooseWord: long randomIndex
    overflow,           \* chooseWord: the product left the range of long
    numValidGuesses,    \* main: int numValidGuesses
    found,              \* the value of the latest call of inList, FALSE after a
                        \* round of main without one
    probes,             \* the indices mid that call's binarySearch dereferenced
    userWord,           \* main: char userWord[ WORD_LEN + 1 ]
    targetWord,         \* main: char targetWord[ WORD_LEN + 1 ]
    result,             \* colour in which processWord printed each letter
    tied,               \* target position each guess letter is tied to, 0 if none
    seedArg,            \* main: argv[ SEED_ARG_INDEX ], None when argc is 2
    stdinLine,          \* the bytes of stdin the latest round of main was given
    printed,            \* the latest message main wrote to stdout
    scoresFile          \* the bytes of scores.txt, None when there is no file

lexVars == <<stream, wordList, wordListLen, capacity, loaded, recordsRead>>
chooseVars == <<seed, chosenIndex, overflow>>
searchVars == <<found, probes>>
feedbackVars == <<result, tied>>
ioVars == <<seedArg, stdinLine, printed, scoresFile>>

vars == <<pc, exitStatus, stream, wordList, wordListLen, capacity, loaded,
          recordsRead, seed, chosenIndex, overflow, numValidGuesses,
          found, probes, userWord, targetWord, result, tied,
          seedArg, stdinLine, printed, scoresFile>>

\* what seedArg and scoresFile hold in place of a sequence of bytes when the
\* argument or the file does not exist
None == <<-1>>

(***************************************************************************)
(* Strings.                                                                *)
(***************************************************************************)
\* a word buffer holding the given letters and the terminator
CStr(letters) == letters \o <<NULL_TERMINATOR>>

\* the letters of a buffer before its terminator cell
Letters(str) == SubSeq(str, 1, WORD_LEN)

\* the sign of strcmp( a, b ): the strings are compared cell by cell up to
\* the first difference or the terminator
RECURSIVE strcmpFrom(_, _, _)
strcmpFrom(a, b, i) ==
    IF a[i] /= b[i] THEN (IF a[i] < b[i] THEN -1 ELSE 1)
    ELSE IF a[i] = NULL_TERMINATOR THEN 0
    ELSE strcmpFrom(a, b, i + 1)

strcmp(a, b) == strcmpFrom(a, b, 1)

(***************************************************************************)
(* wordle.c: processWord                                                   *)
(***************************************************************************)
\* a first loop that ties no target letter
markGreenNone(uw, tw, used, i) == [k \in DOMAIN used |-> FALSE]

\* first loop: targetLetterUsed[ i ] = userWord[ i ] == targetWord[ i ]
RECURSIVE markGreen(_, _, _, _)
markGreen(uw, tw, used, i) ==
    IF uw[i + 1] = NULL_TERMINATOR THEN used
    ELSE markGreen(uw, tw, [used EXCEPT ![i + 1] = (uw[i + 1] = tw[i + 1])], i + 1)

\* the scan of the inner loop without the test of the tie table
RECURSIVE scanTargetAny(_, _, _, _, _)
scanTargetAny(uw, tw, used, i, j) ==
    IF tw[j + 1] = NULL_TERMINATOR THEN -1
    ELSE IF uw[i + 1] = tw[j + 1] THEN j
    ELSE scanTargetAny(uw, tw, used, i, j + 1)

\* inner loop: the first j whose target letter equals userWord[ i ] and is
\* not tied yet; -1 when the scan reaches the terminator of targetWord
RECURSIVE scanTarget(_, _, _, _, _)
scanTarget(uw, tw, used, i, j) ==
    IF tw[j + 1] = NULL_TERMINATOR THEN -1
    ELSE IF uw[i + 1] = tw[j + 1] /\ ~used[j + 1] THEN j
    ELSE scanTarget(uw, tw, used, i, j + 1)

\* outer loop: one record per state of the loop, colors and tie grow by one
\* element per guess letter
RECURSIVE colorLetters(_, _, _, _, _, _)
colorLetters(uw, tw, used, colors, tie, i) ==
    IF uw[i + 1] = NULL_TERMINATOR
    THEN [colors |-> colors, tie |-> tie, used |-> used]
    ELSE IF uw[i + 1] = tw[i + 1]
    THEN colorLetters(uw, tw, used, Append(colors, green), Append(tie, i + 1), i + 1)
    ELSE LET j == scanTarget(uw, tw, used, i, 0) IN
         IF j >= 0
         THEN colorLetters(uw, tw, [used EXCEPT ![j + 1] = TRUE],
                           Append(colors, yellow), Append(tie, j + 1), i + 1)
         ELSE colorLetters(uw, tw, used,
                           Append(colors, defaultColor), Append(tie, 0), i + 1)

\* garbage is the content of the uninitialised array targetLetterUsed
processWord(uw, tw, garbage) ==
    colorLetters(uw, tw, markGreen(uw, tw, garbage, 0), <<>>, <<>>, 0)

(***************************************************************************)
(* io.c: readLine                                                          *)
(***************************************************************************)
\* getc: the byte at position pos (1-based) of the stream as an int, EOF
\* past the end
getc(bytes, pos) == IF pos > Len(bytes) THEN EOF ELSE bytes[pos]

\* the conversion of the int getc returns to the char it is stored in
ToChar(c) == IF c > 127 THEN c - 256 ELSE c

\* for ( int i = 0; i < n; i++ ): the letters read, or "fail" as soon as a
\* character is not a lowercase letter
RECURSIVE readLetters(_, _, _, _, _)
readLetters(bytes, pos, str, i, n) ==
    IF i >= n THEN [ok |-> TRUE, str |-> str, pos |-> pos]
    ELSE LET ch == ToChar(getc(bytes, pos)) IN
         IF ch < LOWERCASE_A \/ ch > LOWERCASE_Z
         THEN [ok |-> FALSE, str |-> str, pos |-> pos]
         ELSE readLetters(bytes, pos + 1, Append(str, ch), i + 1, n)

\* readLine( fp, str, n ): status "more" (returns true), "last" (returns
\* false) or "fail" (exit( EXIT_FAILURE )); pos is the file position left
readLine(bytes, pos, n) ==
    LET r == readLetters(bytes, pos, <<>>, 0, n) IN
    IF ~r.ok THEN [status |-> "fail", str |-> r.str, pos |-> r.pos]
    ELSE LET str == Append(r.str, NULL_TERMINATOR)
             ch == ToChar(getc(bytes, r.pos)) IN
         IF ch = EOF THEN [status |-> "last", str |-> str, pos |-> r.pos + 1]
         ELSE IF ch /= LINE_FEED THEN [status |-> "fail", str |-> str, pos |-> r.pos + 1]
         ELSE LET ch2 == ToChar(getc(bytes, r.pos + 1)) IN
              IF ch2 = EOF
              THEN [status |-> "last", str |-> str, pos |-> r.pos + 2]
              \* ungetc puts the character back
              ELSE [status |-> "more", str |-> str, pos |-> r.pos + 1]

(***************************************************************************)
(* lexicon.c: readWords                                                    *)
(***************************************************************************)
\* if ( wordListLen == capacity ): the capacity after the growth step
growCapacity(len, cap) ==
    IF len = cap
    THEN (IF cap > WORD_LIMIT \div 2 THEN WORD_LIMIT ELSE cap * 2)
    ELSE cap

\* the test of the word limit one record late
atWordLimitLate(len) == len = WORD_LIMIT + 1

\* if ( wordListLen == WORD_LIMIT ): the list is full, the program exits
atWordLimit(len) == len = WORD_LIMIT

\* while( getAnotherLine ): status "ok" when the loop ends, "fail" when
\* readLine or the limit test exits
RECURSIVE readWordsLoop(_, _, _, _, _, _)
readWordsLoop(bytes, pos, list, len, cap, nread) ==
    LET line == readLine(bytes, pos, WORD_LEN) IN
    IF line.status = "fail"
    THEN [status |-> "fail", wordList |-> list, wordListLen |-> len,
          capacity |-> cap, recordsRead |-> nread]
    ELSE LET cap2 == growCapacity(len, cap) IN
         IF atWordLimit(len)
         THEN [status |-> "fail", wordList |-> list, wordListLen |-> len,
               capacity |-> cap2, recordsRead |-> nread + 1]
         ELSE IF line.status = "more"
         THEN readWordsLoop(bytes, line.pos, Append(list, line.str), len + 1, cap2,
                            nread + 1)
         ELSE [status |-> "ok", wordList |-> Append(list, line.str),
               wordListLen |-> len + 1, capacity |-> cap2, recordsRead |-> nread + 1]

readWords(bytes) == readWordsLoop(bytes, 1, <<>>, 0, INITIAL_CAPACITY, 0)

(***************************************************************************)
(* lexicon.c: merge, copyArray, mergeSort, sort                            *)
(***************************************************************************)
\* the elements start..end (0-based, inclusive) of origList
copyArray(origList, start, end) ==
    [i \in 1..(end - start + 1) |-> origList[i + start]]

\* a merge loop whose comparison has the opposite sign
RECURSIVE mergeLoopDescending(_, _, _, _, _, _, _, _)
mergeLoopDescending(left, leftLength, right, rightLength, list, n, leftIndex, rightIndex) ==
    IF ~(leftIndex + rightIndex < n) THEN list
    ELSE IF rightIndex = rightLength
            \/ (leftIndex < leftLength
                /\ strcmp(left[leftIndex + 1], right[rightIndex + 1]) > 0)
    THEN mergeLoopDescending(left, leftLength, right, rightLength,
                   [list EXCEPT ![leftIndex + rightIndex + 1] = left[leftIndex + 1]],
                   n, leftIndex + 1, rightIndex)
    ELSE mergeLoopDescending(left, leftLength, right, rightLength,
                   [list EXCEPT ![leftIndex + rightIndex + 1] = right[rightIndex + 1]],
                   n, leftIndex, rightIndex + 1)

\* while ( leftIndex + rightIndex < n )
RECURSIVE mergeLoop(_, _, _, _, _, _, _, _)
mergeLoop(left, leftLength, right, rightLength, list, n, leftIndex, rightIndex) ==
    IF ~(leftIndex + rightIndex < n) THEN list
    ELSE IF rightIndex = rightLength
            \/ (leftIndex < leftLength
                /\ strcmp(left[leftIndex + 1], right[rightIndex + 1]) < 0)
    THEN mergeLoop(left, leftLength, right, rightLength,
                   [list EXCEPT ![leftIndex + rightIndex + 1] = left[leftIndex + 1]],
                   n, leftIndex + 1, rightIndex)
    ELSE mergeLoop(left, leftLength, right, rightLength,
                   [list EXCEPT ![leftIndex + rightIndex + 1] = right[rightIndex + 1]],
                   n, leftIndex, rightIndex + 1)

\* a merge that takes the left half first and then the right half
mergeAppend(left, leftLength, right, rightLength, list, n) == left \o right

merge(left, leftLength, right, rightLength, list, n) ==
    mergeLoop(left, leftLength, right, rightLength, list, n, 0, 0)

RECURSIVE mergeSort(_, _)
mergeSort(list, n) ==
    IF n /= 1
    THEN LET mid == n \div 2
             leftLength == mid
             rightLength == IF n % 2 = 0 THEN mid ELSE mid + 1
             left == copyArray(list, 0, mid - 1)
             right == copyArray(list, mid, n - 1)
         IN  merge(mergeSort(left, leftLength), leftLength,
                   mergeSort(right, rightLength), rightLength, list, n)
    ELSE list

\* a scan of the neighbours that stops one pair short of the end
hasAdjacentDuplicateShort(list, n) ==
    \E i \in 0..(n - 3) : strcmp(list[i + 1], list[i + 2]) = 0

\* for ( int i = 0; i < wordListLen - 1; i++ ): two neighbours are equal
hasAdjacentDuplicate(list, n) ==
    \E i \in 0..(n - 2) : strcmp(list[i + 1], list[i + 2]) = 0

\* sort(): the sorted list and whether the program exits with failure
sort(list, n) ==
    LET sorted == mergeSort(list, n) IN
    [wordList |-> sorted, fail |-> hasAdjacentDuplicate(sorted, n)]

(***************************************************************************)
(* lexicon.c: binarySearch, inList                                         *)
(***************************************************************************)
\* the result and the sequence of indices mid at which wordList was read
RECURSIVE binarySearch(_, _, _, _, _)
binarySearch(list, word, low, high, seen) ==
    IF low > high THEN [found |-> FALSE, probes |-> seen]
    ELSE LET mid == (low + high) \div 2
             res == strcmp(list[mid + 1], word) IN
         IF res = 0 THEN [found |-> TRUE, probes |-> Append(seen, mid)]
         ELSE IF res > 0
         THEN binarySearch(list, word, low, mid - 1, Append(seen, mid))
         ELSE binarySearch(list, word, mid + 1, high, Append(seen, mid))

\* a search that starts above the first element
inListFromOne(list, n, word) == binarySearch(list, word, 1, n - 1, <<>>)

inList(list, n, word) == binarySearch(list, word, 0, n - 1, <<>>)


(***************************************************************************)
(* 64-bit arithmetic.  A non-negative long is a sequence of digits in base *)
(* LimbBase, lowest digit first, so that every intermediate value of the   *)
(* arithmetic stays below 2^31.                                            *)
(***************************************************************************)
LimbBase == 10000

\* LONG_MAX = 9223372036854775807
LONG_MAX == <<5807, 5477, 368, 3372, 922>>

\* the digits of a small number
RECURSIVE BigOf(_)
BigOf(k) == IF k < LimbBase THEN <<k>> ELSE <<k % LimbBase>> \o BigOf(k \div LimbBase)

\* big % n for 0 < n <= WORD_LIMIT, from the highest digit down
RECURSIVE ModFrom(_, _, _, _)
ModFrom(big, k, n, r) ==
    IF k = 0 THEN r ELSE ModFrom(big, k - 1, n, (r * LimbBase + big[k]) % n)

ModSmall(big, n) == ModFrom(big, Len(big), n, 0)

\* big * m for 0 <= m < WORD_LIMIT
RECURSIVE MulFrom(_, _, _, _)
MulFrom(big, k, m, carry) ==
    IF k > Len(big)
    THEN (IF carry = 0 THEN <<>> ELSE BigOf(carry))
    ELSE LET v == big[k] * m + carry IN
         <<v % LimbBase>> \o MulFrom(big, k + 1, m, v \div LimbBase)

MulSmall(big, m) == MulFrom(big, 1, m, 0)

\* the digit of weight LimbBase^(k-1), 0 above the highest digit
Limb(big, k) == IF k <= Len(big) THEN big[k] ELSE 0

MaxNat(a, b) == IF a >= b THEN a ELSE b

\* a <= b
LessEqBig(a, b) ==
    LET top == MaxNat(Len(a), Len(b)) IN
    \/ \A k \in 1..top : Limb(a, k) = Limb(b, k)
    \/ \E k \in 1..top :
          /\ Limb(a, k) < Limb(b, k)
          /\ \A m \in (k + 1)..top : Limb(a, m) = Limb(b, m)

\* a long that may be negative is the digits of its two's complement bit
\* pattern read as an unsigned number: the values above LONG_MAX are the
\* negative ones
TwoTo64 == <<1616, 955, 737, 6744, 1844>>

\* the digits without zeros above the highest digit
RECURSIVE Normalize(_)
Normalize(big) ==
    IF Len(big) > 1 /\ big[Len(big)] = 0
    THEN Normalize(SubSeq(big, 1, Len(big) - 1))
    ELSE big

\* big + d for 0 <= d < LimbBase
RECURSIVE AddFrom(_, _, _)
AddFrom(big, k, carry) ==
    IF k > Len(big)
    THEN (IF carry = 0 THEN <<>> ELSE <<carry>>)
    ELSE LET v == big[k] + carry IN
         <<v % LimbBase>> \o AddFrom(big, k + 1, v \div LimbBase)

AddSmall(big, d) == AddFrom(big, 1, d)

\* a - b for a >= b
RECURSIVE SubFrom(_, _, _, _)
SubFrom(a, b, k, borrow) ==
    IF k > Len(a) THEN <<>>
    ELSE LET v == a[k] - Limb(b, k) - borrow IN
         <<(v + LimbBase) % LimbBase>> \o SubFrom(a, b, k + 1, IF v < 0 THEN 1 ELSE 0)

SubBig(a, b) == Normalize(SubFrom(a, b, 1, 0))

\* the low 64 bits of a value
RECURSIVE Wrap64(_)
Wrap64(big) ==
    IF LessEqBig(TwoTo64, big) THEN Wrap64(SubBig(big, TwoTo64)) ELSE Normalize(big)

\* the sign bit of a bit pattern
IsNegative(big) == ~LessEqBig(big, LONG_MAX)

\* the absolute value of the long with this bit pattern
Magnitude(big) == IF IsNegative(big) THEN SubBig(TwoTo64, big) ELSE big

(***************************************************************************)
(* lexicon.c: chooseWord                                                   *)
(***************************************************************************)
\* a multiplier of the size of 2^62: 4611686018427388039
MULTIPLIER_Wide == <<8039, 2738, 1842, 1686, 461>>

\* #define MULTIPLIER 4611686018453
MULTIPLIER == <<8453, 8601, 6116, 4>>

\* the index with the product reduced by n - 1 instead of n
randomIndexOffByOne(sd, n) ==
    LET product == MulSmall(MULTIPLIER, ModSmall(sd, n)) IN
    [ product  |-> product,
      overflow |-> ~LessEqBig(product, LONG_MAX),
      index    |-> IF n > 1 THEN ModSmall(product, n - 1) + 1 ELSE 0 ]

\* ( seed % wordListLen ) * MULTIPLIER % wordListLen: the absolute value of
\* the product, whether it is beyond LONG_MAX, and the index when it is not.
\* The remainder of a negative seed is zero or negative, and so are the
\* product and the index.
randomIndex(sd, n) ==
    LET product == MulSmall(MULTIPLIER, ModSmall(Magnitude(sd), n))
        index == ModSmall(product, n) IN
    [ product  |-> product,
      overflow |-> ~LessEqBig(product, LONG_MAX),
      index    |-> IF IsNegative(sd) THEN 0 - index ELSE index ]

\* the word copied into the caller's buffer, terminator included, for an
\* index inside the list
chooseWord(sd, list, n) == list[randomIndex(sd, n).index + 1]

\* the WORD_LEN + 1 bytes chooseWord copies when wordList[ randomIndex ] is
\* read below the start of the list and the process survives the read
StrayWords ==
    { [i \in 1..(WORD_LEN + 1) |-> NULL_TERMINATOR],
      [i \in 1..(WORD_LEN + 1) |-> IF i <= WORD_LEN THEN 63 ELSE NULL_TERMINATOR] }

(***************************************************************************)
(* wordle.c: main, the reading of one guess                                *)
(***************************************************************************)
CARRIAGE_RETURN == 13

\* the string literal "quit"
QuitStr == <<113, 117, 105, 116, NULL_TERMINATOR>>

\* for ( int i = 0; i < WORD_LEN; i++ ) userWord[ i ] = NULL_TERMINATOR:
\* the cell at index WORD_LEN keeps its content
clearUserWord(buf) == [i \in 1..(WORD_LEN + 1) |-> IF i <= WORD_LEN THEN NULL_TERMINATOR ELSE buf[i]]

\* while ( ( letter = getc( stdin ) ) != '\n' && letter != EOF && letter != '\r' )
\* over the bytes left on stdin, from byte k on
RECURSIVE readGuessLoop(_, _, _, _, _)
readGuessLoop(bytes, k, buf, userWordLen, wordIsValid) ==
    LET letter == ToChar(getc(bytes, k)) IN
    IF letter = LINE_FEED \/ letter = EOF \/ letter = CARRIAGE_RETURN
    THEN [letter |-> letter, userWord |-> buf, userWordLen |-> userWordLen,
          wordIsValid |-> wordIsValid]
    ELSE readGuessLoop(bytes, k + 1,
                       IF userWordLen < WORD_LEN
                       THEN [buf EXCEPT ![userWordLen + 1] = letter] ELSE buf,
                       userWordLen + 1,
                       wordIsValid /\ ~(letter < LOWERCASE_A \/ letter > LOWERCASE_Z))

\* one pass of while ( !wordIsValid ): the line read, whether the program
\* quits, and whether the guess is valid (inList is called only for a word
\* of WORD_LEN lowercase letters)
readGuess(bytes, buf, list, n) ==
    LET g == readGuessLoop(bytes, 1, clearUserWord(buf), 0, TRUE)
        quit == g.letter = EOF \/ strcmp(QuitStr, g.userWord) = 0
        wellFormed == g.wordIsValid /\ g.userWordLen = WORD_LEN
        search == inList(list, n, g.userWord)
    IN  [ userWord   |-> g.userWord,
          quit       |-> quit,
          searched   |-> ~quit /\ wellFormed,
          search     |-> search,
          wordIsValid |-> ~quit /\ wellFormed /\ search.found ]

(***************************************************************************)
(* wordle.c: getSeed                                                       *)
(***************************************************************************)
NUMBER_0 == 48
NUMBER_9 == 57
BASE_10 == 10

\* for ( int i = 0; str[ i ]; i++ ) over the bit pattern of *seed.  A
\* product beyond the range of long is undefined: the pattern is the low 64
\* bits in every build, and the test *seed < 0 after it either sees that
\* pattern (testWrapped) or is compiled as a test of the seed before the
\* multiplication.  The addition of the digit is followed by no test.
RECURSIVE getSeedLoop(_, _, _, _)
getSeedLoop(str, i, sd, testWrapped) ==
    LET digit == str[i + 1] IN
    IF digit = NULL_TERMINATOR THEN [status |-> "ok", seed |-> sd]
    ELSE IF digit < NUMBER_0 \/ digit > NUMBER_9 THEN [status |-> "usage", seed |-> sd]
    ELSE LET exact == MulSmall(Magnitude(sd), BASE_10)
             undefined == IF IsNegative(sd) THEN ~LessEqBig(exact, AddSmall(LONG_MAX, 1))
                          ELSE ~LessEqBig(exact, LONG_MAX)
             shifted == Wrap64(MulSmall(sd, BASE_10))
             negative == IF undefined /\ ~testWrapped THEN IsNegative(sd)
                         ELSE IsNegative(shifted)
         IN  IF negative THEN [status |-> "usage", seed |-> shifted]
             ELSE getSeedLoop(str, i + 1, Wrap64(AddSmall(shifted, digit - NUMBER_0)),
                              testWrapped)

getSeed(str, testWrapped) == getSeedLoop(str, 0, <<0>>, testWrapped)

(***************************************************************************)
(* history.c: nextInt, updateScore                                         *)
(***************************************************************************)
MAX_NUM_GUESSES == 10
SPACE_CHAR == 32

\* while( ch == SPACE_CHAR ): the position of the first character that is
\* not a space
RECURSIVE skipSpaces(_, _)
skipSpaces(bytes, pos) ==
    IF ToChar(getc(bytes, pos)) = SPACE_CHAR THEN skipSpaces(bytes, pos + 1) ELSE pos

\* while( ch >= NUMBER_0 && ch <= NUMBER_9 ): the value, and the position
\* after the character that ended the digits
RECURSIVE parseDigits(_, _, _)
parseDigits(bytes, pos, returnValue) ==
    LET ch == ToChar(getc(bytes, pos)) IN
    IF ch >= NUMBER_0 /\ ch <= NUMBER_9
    THEN parseDigits(bytes, pos + 1, returnValue * BASE_10 + (ch - NUMBER_0))
    ELSE [value |-> returnValue, pos |-> pos + 1]

nextInt(bytes, pos) == parseDigits(bytes, skipSpaces(bytes, pos), 0)

\* for ( int i = 0; i < MAX_NUM_GUESSES; i++ ) scores[ i ] = nextInt( fp )
RECURSIVE readScores(_, _, _)
readScores(bytes, pos, scores) ==
    IF Len(scores) = MAX_NUM_GUESSES THEN scores
    ELSE LET r == nextInt(bytes, pos) IN
         readScores(bytes, r.pos, Append(scores, r.value))

\* "0 0 0 0 0 0 0 0 0 0", written when scores.txt cannot be opened
InitialScores ==
    [i \in 1..(2 * MAX_NUM_GUESSES - 1) |-> IF i % 2 = 1 THEN NUMBER_0 ELSE SPACE_CHAR]

\* what %d prints for a value >= 0
RECURSIVE decimal(_)
decimal(v) ==
    IF v < BASE_10 THEN <<NUMBER_0 + v>>
    ELSE decimal(v \div BASE_10) \o <<NUMBER_0 + (v % BASE_10)>>

\* "%d " for the first MAX_NUM_GUESSES - 1 scores, "%d\n" for the last
RECURSIVE writeScores(_, _)
writeScores(scores, i) ==
    IF i = MAX_NUM_GUESSES - 1 THEN decimal(scores[i + 1]) \o <<LINE_FEED>>
    ELSE decimal(scores[i + 1]) \o <<SPACE_CHAR>> \o writeScores(scores, i + 1)

\* an index that is the number of guesses itself
scoreIndexFromOne(guessCount) ==
    IF guessCount < MAX_NUM_GUESSES THEN guessCount ELSE MAX_NUM_GUESSES - 1

\* the index of the score that is incremented
scoreIndex(guessCount) ==
    IF guessCount < MAX_NUM_GUESSES THEN guessCount - 1 ELSE MAX_NUM_GUESSES - 1

\* the bytes of scores.txt after updateScore( guessCount )
updateScore(file, guessCount) ==
    LET contents == IF file = None THEN InitialScores ELSE file
        scores == readScores(contents, 1, <<>>)
        updated == [scores EXCEPT ![scoreIndex(guessCount) + 1] = @ + 1]
    IN  writeScores(updated, 0)

(***************************************************************************)
(* The feedback engine alone: a guess and a target, then processWord.      *)
(***************************************************************************)
Alphabet == LOWERCASE_A .. (LOWERCASE_A + NumLetters - 1)

EnumWords == [1..WORD_LEN -> Alphabet]

\* "speed"/"deeds", "abcde"/"abcde", "aaaaa"/"xyzzz" as <<target, guess>>
Speed == <<115, 112, 101, 101, 100>>
Deeds == <<100, 101, 101, 100, 115>>
Abcde == <<97, 98, 99, 100, 101>>
Aaaaa == <<97, 97, 97, 97, 97>>
Xyzzz == <<120, 121, 122, 122, 122>>

ExamplePairs == {<<Speed, Deeds>>, <<Abcde, Abcde>>, <<Aaaaa, Xyzzz>>}

\* the state of the parts of the program a specification leaves out
NoLexicon ==
    /\ stream = <<>>
    /\ wordList = <<>>
    /\ wordListLen = 0
    /\ capacity = 0
    /\ loaded = <<>>
    /\ recordsRead = 0

NoChoice ==
    /\ seed = <<>>
    /\ chosenIndex = 0
    /\ overflow = FALSE

NoSearch ==
    /\ found = FALSE
    /\ probes = <<>>

NoFeedback ==
    /\ result = <<>>
    /\ tied = <<>>

NoIo ==
    /\ seedArg = None
    /\ stdinLine = <<>>
    /\ printed = ""
    /\ scoresFile = None

InitClassify ==
    /\ NoIo
    /\ pc = "classify"
    /\ exitStatus = "running"
    /\ NoLexicon
    /\ NoChoice
    /\ NoSearch
    /\ numValidGuesses = 0
    /\ \E p \in (EnumWords \X EnumWords) \cup ExamplePairs :
          /\ targetWord = CStr(p[1])
          /\ userWord = CStr(p[2])
    /\ result = <<>>
    /\ tied = <<>>

Classify ==
    /\ pc = "classify"
    /\ \E fill \in BOOLEAN :
          LET r == processWord(userWord, targetWord, [k \in 1..WORD_LEN |-> fill]) IN
          /\ result' = r.colors
          /\ tied' = r.tie
    /\ pc' = "classified"
    /\ UNCHANGED <<ioVars, exitStatus, lexVars, chooseVars, numValidGuesses, searchVars,
                   userWord, targetWord>>

NextClassify == Classify

SpecClassify == InitClassify /\ [][NextClassify]_vars

(***************************************************************************)
(* Word sources: streams of at most MaxRecords records of any kind, and    *)
(* streams of at most MaxGoodRecords well-formed records.                  *)
(***************************************************************************)
\* the k-th word of the pool: the binary digits of k as letters a and b,
\* lowest digit first
RECURSIVE Pow2(_)
Pow2(e) == IF e = 0 THEN 1 ELSE 2 * Pow2(e - 1)

WordOf(k) == [i \in 1..WORD_LEN |-> LOWERCASE_A + ((k \div Pow2(i - 1)) % 2)]

Pool == {WordOf(k) : k \in 0..(NumWords - 1)}

\* a pool word ended by a line feed, by the end of the file or by byte 255
WordChunks ==
    {w \o t : w \in Pool, t \in {<<LINE_FEED>>, <<>>, <<255>>}}

\* a record too short, too long, with a capital letter, a blank line, and
\* a record ended by carriage return and line feed
BadChunks ==
    { <<97, 98, 97, 98, LINE_FEED>>,
      <<97, 98, 97, 98, 97, 98, LINE_FEED>>,
      <<97, 66, 97, 98, 97, LINE_FEED>>,
      <<LINE_FEED>>,
      <<98, 98, 98, 98, 98, 13, LINE_FEED>> }

RECURSIVE ChunkStreams(_, _)
ChunkStreams(chunks, k) ==
    IF k = 0 THEN {<<>>}
    ELSE LET shorter == ChunkStreams(chunks, k - 1) IN
         shorter \cup {s \o c : s \in shorter, c \in chunks}

Streams ==
    ChunkStreams(WordChunks \cup BadChunks, MaxRecords)
        \cup ChunkStreams({w \o <<LINE_FEED>> : w \in Pool}, MaxGoodRecords)

\* the words inList is asked about: the pool, one more word of the same
\* shape, and a word after all of them
QueryWords == {WordOf(k) : k \in 0..NumWords} \cup {[i \in 1..WORD_LEN |-> LOWERCASE_Z]}

(***************************************************************************)
(* The lexicon store alone: readWords, then sort, then calls of inList.    *)
(***************************************************************************)
InitLexicon ==
    /\ NoIo
    /\ pc = "readWords"
    /\ exitStatus = "running"
    /\ stream \in Streams
    /\ wordList = <<>>
    /\ wordListLen = 0
    /\ capacity = 0
    /\ loaded = <<>>
    /\ recordsRead = 0
    /\ NoChoice
    /\ NoSearch
    /\ NoFeedback
    /\ numValidGuesses = 0
    /\ userWord = <<>>
    /\ targetWord = <<>>

ReadWords ==
    /\ pc = "readWords"
    /\ LET r == readWords(stream) IN
       /\ wordList' = r.wordList
       /\ wordListLen' = r.wordListLen
       /\ capacity' = r.capacity
       /\ loaded' = r.wordList
       /\ recordsRead' = r.recordsRead
       /\ IF r.status = "ok"
          THEN pc' = "loaded" /\ exitStatus' = exitStatus
          ELSE pc' = "exitInReadWords" /\ exitStatus' = "EXIT_FAILURE"
    /\ UNCHANGED <<ioVars, stream, chooseVars, numValidGuesses, searchVars, feedbackVars,
                   userWord, targetWord>>

Sort ==
    /\ pc = "loaded"
    /\ LET r == sort(wordList, wordListLen) IN
       /\ wordList' = r.wordList
       /\ IF r.fail
          THEN pc' = "exitInSort" /\ exitStatus' = "EXIT_FAILURE"
          ELSE pc' = "sorted" /\ exitStatus' = exitStatus
    /\ UNCHANGED <<ioVars, stream, wordListLen, capacity, loaded, recordsRead, chooseVars,
                   numValidGuesses, searchVars, feedbackVars, userWord, targetWord>>

InList ==
    /\ pc \in {"sorted", "searched"}
    /\ \E w \in QueryWords :
          LET r == inList(wordList, wordListLen, CStr(w)) IN
          /\ userWord' = CStr(w)
          /\ found' = r.found
          /\ probes' = r.probes
    /\ pc' = "searched"
    /\ UNCHANGED <<ioVars, exitStatus, lexVars, chooseVars, numValidGuesses, feedbackVars,
                   targetWord>>

NextLexicon == ReadWords \/ Sort \/ InList

SpecLexicon == InitLexicon /\ [][NextLexicon]_vars

(***************************************************************************)
(* mergeSort alone: a list of pool words in any order, duplicates          *)
(* included, is sorted and then sorted again.  loaded holds the list as it *)
(* was before the latest call.                                             *)
(***************************************************************************)
SortLists == UNION {[1..k -> {CStr(w) : w \in Pool}] : k \in 1..MaxGoodRecords}

InitSort ==
    /\ NoIo
    /\ pc = "mergeSort"
    /\ exitStatus = "running"
    /\ stream = <<>>
    /\ wordList \in SortLists
    /\ wordListLen = Len(wordList)
    /\ capacity = 0
    /\ loaded = <<>>
    /\ recordsRead = 0
    /\ NoChoice
    /\ NoSearch
    /\ NoFeedback
    /\ numValidGuesses = 0
    /\ userWord = <<>>
    /\ targetWord = <<>>

MergeSort ==
    /\ pc \in {"mergeSort", "sortedOnce"}
    /\ wordList' = mergeSort(wordList, wordListLen)
    /\ loaded' = wordList
    /\ pc' = IF pc = "mergeSort" THEN "sortedOnce" ELSE "sortedTwice"
    /\ UNCHANGED <<ioVars, exitStatus, stream, wordListLen, capacity, recordsRead, chooseVars,
                   numValidGuesses, searchVars, feedbackVars, userWord, targetWord>>

NextSort == MergeSort

SpecSort == InitSort /\ [][NextSort]_vars

(***************************************************************************)
(* The loading loop of readWords alone, one iteration per step, on a       *)
(* well-formed word source of any length.  Only the counters are kept; the *)
(* words themselves are left out of wordList.                              *)
(***************************************************************************)
InitGrow ==
    /\ NoIo
    /\ pc = "loading"
    /\ exitStatus = "running"
    /\ stream = <<>>
    /\ wordList = <<>>
    /\ wordListLen = 0
    /\ capacity = INITIAL_CAPACITY
    /\ loaded = <<>>
    /\ recordsRead = 0
    /\ NoChoice
    /\ NoSearch
    /\ NoFeedback
    /\ numValidGuesses = 0
    /\ userWord = <<>>
    /\ targetWord = <<>>

\* one iteration of while( getAnotherLine ) in which readLine returned a
\* record and the value more
LoadRecord(more) ==
    /\ pc = "loading"
    /\ recordsRead' = recordsRead + 1
    /\ capacity' = growCapacity(wordListLen, capacity)
    /\ IF atWordLimit(wordListLen)
       THEN /\ pc' = "exitInReadWords"
            /\ exitStatus' = "EXIT_FAILURE"
            /\ wordListLen' = wordListLen
       ELSE /\ wordListLen' = wordListLen + 1
            /\ pc' = IF more THEN "loading" ELSE "loaded"
            /\ exitStatus' = exitStatus
    /\ UNCHANGED <<ioVars, stream, wordList, loaded, chooseVars, numValidGuesses,
                   searchVars, feedbackVars, userWord, targetWord>>

LoadRecordMore == LoadRecord(TRUE)

LoadRecordLast == LoadRecord(FALSE)

NextGrow == LoadRecordMore \/ LoadRecordLast

SpecGrow == InitGrow /\ [][NextGrow]_vars

(***************************************************************************)
(* The index computation of chooseWord alone, for list lengths up to       *)
(* WORD_LIMIT and seeds up to LONG_MAX.                                    *)
(***************************************************************************)
\* list lengths: the smallest ones and the ones just below WORD_LIMIT
ChooseSizes == (1..MaxSize) \cup {WORD_LIMIT - k : k \in 0..(MaxSize - 1)}

\* seeds: the smallest ones, the ones around WORD_LIMIT and the ones just
\* below LONG_MAX
ChooseSeeds ==
    {BigOf(k) : k \in 0..MaxSeed}
        \cup {BigOf(WORD_LIMIT - 1 - k) : k \in 0..MaxSeed}
        \cup {[LONG_MAX EXCEPT ![1] = @ - k] : k \in 0..MaxSeed}

InitChoose ==
    /\ NoIo
    /\ pc = "chooseWord"
    /\ exitStatus = "running"
    /\ stream = <<>>
    /\ wordList = <<>>
    /\ wordListLen \in ChooseSizes
    /\ capacity = 0
    /\ loaded = <<>>
    /\ recordsRead = 0
    /\ seed \in ChooseSeeds
    /\ chosenIndex = 0
    /\ overflow = FALSE
    /\ NoSearch
    /\ NoFeedback
    /\ numValidGuesses = 0
    /\ userWord = <<>>
    /\ targetWord = <<>>

ChooseIndex ==
    /\ pc = "chooseWord"
    /\ LET r == randomIndex(seed, wordListLen) IN
       /\ chosenIndex' = r.index
       /\ overflow' = r.overflow
    /\ pc' = "chosen"
    /\ UNCHANGED <<ioVars, exitStatus, lexVars, seed, numValidGuesses, searchVars,
                   feedbackVars, userWord, targetWord>>

NextChoose == ChooseIndex

SpecChoose == InitChoose /\ [][NextChoose]_vars

(***************************************************************************)
(* The whole program: main reads the word list, picks the seed, chooses    *)
(* the target, sorts the list and plays the rounds of the game, the first  *)
(* game in its directory.                                                  *)
(***************************************************************************)
MainChunks ==
    {w \o <<LINE_FEED>> : w \in Pool}
        \cup {WordOf(0) \o <<255>>, <<97, 98, 97, 98, LINE_FEED>>}

MainStreams == ChunkStreams(MainChunks, MaxMainRecords)

MainSeeds == {BigOf(k) : k \in 0..MaxMainSeed}

\* the lines the player types: the query words, "quit", a short word, a
\* long word, a word with a capital letter, each ended by a line feed; a
\* word ended by a carriage return, by byte 255, and the end of the input
InputLines ==
    {w \o <<LINE_FEED>> :
        w \in QueryWords \cup { <<113, 117, 105, 116>>, <<97, 98>>,
                                <<97, 97, 97, 97, 97, 97>>, <<97, 66, 97, 98, 97>> }}
        \cup { WordOf(0) \o <<CARRIAGE_RETURN>>, WordOf(0) \o <<255>>, WordOf(1), <<>> }

\* the bytes the stack holds where userWord is declared
StackBytes == {NULL_TERMINATOR, 63}

\* the characters of a sequence of decimal digits
Text(digits) == [i \in 1..Len(digits) |-> NUMBER_0 + digits[i]]

\* the digits of LONG_MAX
LongMaxDigits == <<9, 2, 2, 3, 3, 7, 2, 0, 3, 6, 8, 5, 4, 7, 7, 5, 8, 0, 7>>

\* the seed arguments of the whole program: "1" and LONG_MAX + 2
MainSeedArgs == {Text(<<1>>), Text([LongMaxDigits EXCEPT ![19] = 9])}

\* a histogram of MAX_NUM_GUESSES scores whose first is v, each next one
\* greater by step
ScoresFrom(v, step) == [i \in 1..MAX_NUM_GUESSES |-> v + step * (i - 1)]

InitMain ==
    /\ seedArg \in MainSeedArgs \cup {None}
    /\ stdinLine = <<>>
    /\ printed = ""
    /\ scoresFile = None
    /\ pc = "readWords"
    /\ exitStatus = "running"
    /\ stream \in MainStreams
    /\ wordList = <<>>
    /\ wordListLen = 0
    /\ capacity = 0
    /\ loaded = <<>>
    /\ recordsRead = 0
    /\ NoChoice
    /\ NoSearch
    /\ NoFeedback
    /\ numValidGuesses = 0
    /\ \E b \in StackBytes : userWord = [i \in 1..(WORD_LEN + 1) |-> b]
    /\ targetWord = <<>>

MainReadWords ==
    /\ pc = "readWords"
    /\ LET r == readWords(stream) IN
       /\ wordList' = r.wordList
       /\ wordListLen' = r.wordListLen
       /\ capacity' = r.capacity
       /\ loaded' = r.wordList
       /\ recordsRead' = r.recordsRead
       /\ IF r.status = "ok"
          THEN pc' = "getSeed" /\ exitStatus' = exitStatus
          ELSE pc' = "exitInReadWords" /\ exitStatus' = "EXIT_FAILURE"
    /\ UNCHANGED <<ioVars, stream, chooseVars, numValidGuesses, searchVars, feedbackVars,
                   userWord, targetWord>>

\* getSeed( argv[ SEED_ARG_INDEX ], &seed )
MainGetSeed ==
    /\ pc = "getSeed"
    /\ seedArg /= None
    /\ \E testWrapped \in BOOLEAN :
          LET r == getSeed(CStr(seedArg), testWrapped) IN
          IF r.status = "ok"
          THEN seed' = r.seed /\ pc' = "chooseWord" /\ exitStatus' = exitStatus
          ELSE seed' = seed /\ pc' = "exitUsage" /\ exitStatus' = "EXIT_FAILURE"
    /\ UNCHANGED <<ioVars, lexVars, chosenIndex, overflow, numValidGuesses,
                   searchVars, feedbackVars, userWord, targetWord>>

\* seed = time( NULL )
MainTimeSeed ==
    /\ pc = "getSeed"
    /\ seedArg = None
    /\ seed' \in MainSeeds
    /\ pc' = "chooseWord"
    /\ UNCHANGED <<ioVars, exitStatus, lexVars, chosenIndex, overflow, numValidGuesses,
                   searchVars, feedbackVars, userWord, targetWord>>

\* chooseWord( seed, targetWord ): with a negative index the read of
\* wordList[ randomIndex ] is outside the list, and the process is killed
\* or copies stray bytes
MainChooseWord ==
    /\ pc = "chooseWord"
    /\ LET r == randomIndex(seed, wordListLen) IN
       /\ chosenIndex' = r.index
       /\ overflow' = r.overflow
       /\ IF r.index >= 0
          THEN /\ targetWord' = chooseWord(seed, wordList, wordListLen)
               /\ pc' = "sort"
               /\ exitStatus' = exitStatus
          ELSE \/ /\ targetWord' \in StrayWords
                  /\ pc' = "sort"
                  /\ exitStatus' = exitStatus
               \/ /\ targetWord' = targetWord
                  /\ pc' = "killed"
                  /\ exitStatus' = "SIGSEGV"
    /\ UNCHANGED <<ioVars, lexVars, seed, numValidGuesses, searchVars,
                   feedbackVars, userWord>>

MainSort ==
    /\ pc = "sort"
    /\ LET r == sort(wordList, wordListLen) IN
       /\ wordList' = r.wordList
       /\ IF r.fail
          THEN pc' = "exitInSort" /\ exitStatus' = "EXIT_FAILURE"
          ELSE pc' = "getGuess" /\ exitStatus' = exitStatus
    /\ UNCHANGED <<ioVars, stream, wordListLen, capacity, loaded, recordsRead, chooseVars,
                   numValidGuesses, searchVars, feedbackVars, userWord, targetWord>>

\* the end of the input or the line "quit": the program prints the target
\* and exits
GuessQuit(g) ==
    /\ g.quit
    /\ userWord' = g.userWord
    /\ found' = FALSE
    /\ probes' = <<>>
    /\ printed' = "The word was"
    /\ pc' = "exitQuit"
    /\ exitStatus' = "EXIT_SUCCESS"
    /\ UNCHANGED <<numValidGuesses, feedbackVars, scoresFile>>

\* a line that is not a word of the list: "Invalid guess"
GuessInvalid(g) ==
    /\ ~g.quit
    /\ ~g.wordIsValid
    /\ userWord' = g.userWord
    /\ IF g.searched
       THEN found' = g.search.found /\ probes' = g.search.probes
       ELSE found' = FALSE /\ probes' = <<>>
    /\ printed' = "Invalid guess"
    /\ UNCHANGED <<pc, exitStatus, numValidGuesses, feedbackVars, scoresFile>>

\* a word of the list that is not the target: processWord prints it; the
\* player makes no wrong guess after the first rounds valid ones
GuessWrongWithin(g, rounds) ==
    /\ g.wordIsValid
    /\ strcmp(g.userWord, targetWord) /= 0
    /\ numValidGuesses < rounds
    /\ \E fill \in BOOLEAN :
          LET r == processWord(g.userWord, targetWord, [k \in 1..WORD_LEN |-> fill]) IN
          /\ result' = r.colors
          /\ tied' = r.tie
    /\ userWord' = g.userWord
    /\ found' = g.search.found
    /\ probes' = g.search.probes
    /\ numValidGuesses' = numValidGuesses + 1
    /\ printed' = "feedback"
    /\ UNCHANGED <<pc, exitStatus, scoresFile>>

GuessWrong(g) == GuessWrongWithin(g, MaxGuesses)

\* the target: "Solved in ...", updateScore and the program exits
GuessSolved(g) ==
    /\ g.wordIsValid
    /\ strcmp(g.userWord, targetWord) = 0
    /\ userWord' = g.userWord
    /\ found' = g.search.found
    /\ probes' = g.search.probes
    /\ numValidGuesses' = numValidGuesses + 1
    /\ printed' = "Solved"
    /\ scoresFile' = updateScore(scoresFile, numValidGuesses + 1)
    /\ pc' = "exitSolved"
    /\ exitStatus' = "EXIT_SUCCESS"
    /\ UNCHANGED feedbackVars

\* one pass of the inner loop of main on the next line of the input
MainGuess ==
    /\ pc = "getGuess"
    /\ \E line \in InputLines :
          LET g == readGuess(line, userWord, wordList, wordListLen) IN
          /\ stdinLine' = line
          /\ \/ GuessQuit(g)
             \/ GuessInvalid(g)
             \/ GuessWrong(g)
             \/ GuessSolved(g)
    /\ UNCHANGED <<lexVars, chooseVars, targetWord, seedArg>>

NextMain ==
    \/ MainReadWords
    \/ MainGetSeed
    \/ MainTimeSeed
    \/ MainChooseWord
    \/ MainSort
    \/ MainGuess

SpecMain == InitMain /\ [][NextMain]_vars

(***************************************************************************)
(* A long game: the rounds of main from the first guess on, on the lexicon *)
(* aaaaa, baaaa as main has loaded and sorted it, with the target          *)
(* chooseWord gives for the seed.                                          *)
(***************************************************************************)
SessionStream == WordOf(0) \o <<LINE_FEED>> \o WordOf(1) \o <<LINE_FEED>>

\* the histograms scores.txt holds before the game: no game yet, scores of
\* one and two digits, and scores about to take a third digit
SessionHistograms == {ScoresFrom(0, 0), ScoresFrom(9, 1), ScoresFrom(99, 0)}

InitSession ==
    LET r == readWords(SessionStream)
        s == sort(r.wordList, r.wordListLen) IN
    /\ pc = "getGuess"
    /\ exitStatus = "running"
    /\ stream = SessionStream
    /\ wordList = s.wordList
    /\ wordListLen = r.wordListLen
    /\ capacity = r.capacity
    /\ loaded = r.wordList
    /\ recordsRead = r.recordsRead
    /\ seed \in MainSeeds
    /\ chosenIndex = randomIndex(seed, r.wordListLen).index
    /\ overflow = randomIndex(seed, r.wordListLen).overflow
    /\ targetWord = chooseWord(seed, r.wordList, r.wordListLen)
    /\ NoSearch
    /\ NoFeedback
    /\ numValidGuesses = 0
    /\ \E b \in StackBytes : userWord = [i \in 1..(WORD_LEN + 1) |-> b]
    /\ seedArg = None
    /\ stdinLine = <<>>
    /\ printed = ""
    /\ scoresFile \in {None} \cup {writeScores(h, 0) : h \in SessionHistograms}

\* one pass of the inner loop of main on the next line of the input
SessionGuess ==
    /\ pc = "getGuess"
    /\ \E line \in InputLines :
          LET g == readGuess(line, userWord, wordList, wordListLen) IN
          /\ stdinLine' = line
          /\ \/ GuessQuit(g)
             \/ GuessInvalid(g)
             \/ GuessWrongWithin(g, MaxRounds)
             \/ GuessSolved(g)
    /\ UNCHANGED <<lexVars, chooseVars, targetWord, seedArg>>

NextSession == SessionGuess

SpecSession == InitSession /\ [][NextSession]_vars

(***************************************************************************)
(* The seed argument alone: getSeed on a string, then the index of         *)
(* chooseWord for the seed it left.                                        *)
(***************************************************************************)
DecimalDigits == 0..9

\* the 18 digits LONG_MAX starts with
LongMaxPrefix == SubSeq(LongMaxDigits, 1, 18)

\* the 19 digits 2^64 starts with
TwoTo64Prefix == <<1, 8, 4, 4, 6, 7, 4, 4, 0, 7, 3, 7, 0, 9, 5, 5, 1, 6, 1>>

\* strings of digits: the numbers of one digit, 12, 007, the numbers from
\* LONG_MAX - 7 to LONG_MAX + 2, the numbers from 2^64 - 6 to 2^64 + 13,
\* and ten times LONG_MAX
DigitStrings ==
    {<<d>> : d \in DecimalDigits}
        \cup {<<1, 2>>, <<0, 0, 7>>, LongMaxDigits \o <<0>>}
        \cup {LongMaxPrefix \o <<d>> : d \in DecimalDigits}
        \cup {TwoTo64Prefix \o <<d>> : d \in DecimalDigits}
        \cup {[TwoTo64Prefix EXCEPT ![19] = 2] \o <<d>> : d \in DecimalDigits}

\* the seed arguments: the strings of digits, "12a", "-5" and ""
SeedArgs ==
    {Text(ds) : ds \in DigitStrings} \cup {<<49, 50, 97>>, <<45, 53>>, <<>>}

InitSeed ==
    /\ pc = "getSeed"
    /\ exitStatus = "running"
    /\ stream = <<>>
    /\ wordList = <<>>
    /\ wordListLen \in 1..MaxSize
    /\ capacity = 0
    /\ loaded = <<>>
    /\ recordsRead = 0
    /\ NoChoice
    /\ NoSearch
    /\ NoFeedback
    /\ numValidGuesses = 0
    /\ userWord = <<>>
    /\ targetWord = <<>>
    /\ seedArg \in SeedArgs
    /\ stdinLine = <<>>
    /\ printed = ""
    /\ scoresFile = None

NextSeed == MainGetSeed \/ ChooseIndex

SpecSeed == InitSeed /\ [][NextSeed]_vars

(***************************************************************************)
(* The two-pass rule of the feedback engine, stated over sets of positions *)
(* (1-based): the exact matches are claimed first, then each other guess   *)
(* position claims the lowest unclaimed target position with its letter.   *)
(***************************************************************************)
Positions == 1..WORD_LEN

MinOf(S) == CHOOSE x \in S : \A y \in S : x <= y

ExactMatches(g, t) == {i \in Positions : g[i] = t[i]}

RECURSIVE TwoPass(_, _, _, _)
TwoPass(g, t, claimed, i) ==
    IF i > WORD_LEN THEN <<>>
    ELSE IF g[i] = t[i] THEN <<green>> \o TwoPass(g, t, claimed, i + 1)
    ELSE LET free == {j \in Positions : t[j] = g[i] /\ j \notin claimed} IN
         IF free = {}
         THEN <<defaultColor>> \o TwoPass(g, t, claimed, i + 1)
         ELSE <<yellow>> \o TwoPass(g, t, claimed \cup {MinOf(free)}, i + 1)

Classification(g, t) == TwoPass(g, t, ExactMatches(g, t), 1)

Occurrences(w, c) == Cardinality({i \in Positions : w[i] = c})

MinNat(a, b) == IF a <= b THEN a ELSE b

AllLetters == LOWERCASE_A .. LOWERCASE_Z

\* C1: the colouring processWord prints is the one the two-pass rule gives
\* (exact matches claimed first, then the lowest unclaimed target position
\* for each other letter, else absent); a guess equal to the target is all
\* green.
C1_TwoPassColouring ==
    pc = "classified" =>
        /\ result = Classification(Letters(userWord), Letters(targetWord))
        /\ (userWord = targetWord => result = [i \in Positions |-> green])

\* a yellow letter that passed over a claimed target position holding its
\* letter and was tied to a later one
C1_Witness ==
    /\ pc = "classified"
    /\ \E i \in Positions :
          /\ result[i] = yellow
          /\ \E j \in Positions : j < tied[i] /\ targetWord[j] = userWord[i]

\* C2: the ties are a one-to-one matching: for every letter c the number of
\* guess letters c printed green or yellow is min(occurrences of c in the
\* guess, occurrences of c in the target), no target position is tied to
\* two guess positions, a guess sharing no letter with the target is all
\* default colour, and "deeds" against "speed" is yellow, yellow, green,
\* default, yellow.
C2_OneToOneMatching ==
    pc = "classified" =>
        LET g == Letters(userWord)
            t == Letters(targetWord) IN
        /\ \A c \in AllLetters :
              Cardinality({i \in Positions : g[i] = c /\ result[i] /= defaultColor})
                  = MinNat(Occurrences(g, c), Occurrences(t, c))
        /\ \A i, k \in Positions : (tied[i] /= 0 /\ tied[i] = tied[k]) => i = k
        /\ \A i \in Positions : tied[i] /= 0 => t[tied[i]] = g[i]
        /\ ((\A i, j \in Positions : g[i] /= t[j])
               => result = [i \in Positions |-> defaultColor])
        /\ ((g = Deeds /\ t = Speed)
               => result = <<yellow, yellow, green, defaultColor, yellow>>)

\* "deeds" has been coloured against "speed": the second d is left without
\* a target letter
C2_Witness ==
    /\ pc = "classified"
    /\ Letters(userWord) = Deeds
    /\ Letters(targetWord) = Speed
    /\ result[4] = defaultColor
    /\ tied[1] = 5

(***************************************************************************)
(* The word-source format, stated over byte positions: records of WORD_LEN *)
(* lowercase letters, a line feed after each, optional after the last.     *)
(***************************************************************************)
RecordSize == WORD_LEN + 1

WellFormed(bytes) ==
    /\ Len(bytes) >= WORD_LEN
    /\ Len(bytes) % RecordSize \in {0, WORD_LEN}
    /\ \A p \in 1..Len(bytes) :
          IF p % RecordSize = 0
          THEN bytes[p] = LINE_FEED
          ELSE bytes[p] \in LOWERCASE_A..LOWERCASE_Z

RecordCount(bytes) == (Len(bytes) + 1) \div RecordSize

Records(bytes) ==
    [r \in 1..RecordCount(bytes) |->
        CStr(SubSeq(bytes, RecordSize * (r - 1) + 1, RecordSize * (r - 1) + WORD_LEN))]

HasDuplicate(list) ==
    \E i, j \in 1..Len(list) : i < j /\ list[i] = list[j]

ValidSource(bytes) == WellFormed(bytes) /\ ~HasDuplicate(Records(bytes))

\* a is before b in lexicographic order
LexLess(a, b) ==
    \E k \in 1..WORD_LEN : a[k] < b[k] /\ \A m \in 1..(k - 1) : a[m] = b[m]

StrictlyAscending(list) ==
    \A i \in 1..(Len(list) - 1) : LexLess(list[i], list[i + 1])

CountIn(list, w) == Cardinality({i \in 1..Len(list) : list[i] = w})

IsPermutation(a, b) ==
    /\ Len(a) = Len(b)
    /\ \A i \in 1..Len(a) : CountIn(a, a[i]) = CountIn(b, a[i])

AfterSort == pc \in {"sorted", "searched", "exitInSort"}

\* C4: for a valid word source (well-formed, no two records equal), sort
\* returns normally and leaves the word list strictly ascending and a
\* permutation of the words loaded.
C4_SortedStrictlyAscending ==
    (AfterSort /\ ValidSource(stream)) =>
        /\ pc /= "exitInSort"
        /\ wordListLen = Len(wordList)
        /\ StrictlyAscending(wordList)
        /\ IsPermutation(wordList, loaded)
        /\ loaded = Records(stream)

\* an odd number of words, loaded out of order, has been sorted
C4_Witness ==
    /\ pc = "sorted"
    /\ ValidSource(stream)
    /\ wordListLen = 3
    /\ wordList /= loaded

\* C5: after a successful sort, inList( w ) is true exactly when w is one
\* of the words loaded, and the search reads wordList only at indices
\* 0..wordListLen-1 and ends after at most wordListLen reads.
C5_InListIffLoaded ==
    pc = "searched" =>
        /\ found <=> (\E i \in 1..Len(loaded) : loaded[i] = userWord)
        /\ \A k \in 1..Len(probes) : probes[k] \in 0..(wordListLen - 1)
        /\ Len(probes) <= wordListLen

\* an absent word that lies between two present words was searched for
C5_Witness ==
    /\ pc = "searched"
    /\ ~found
    /\ Len(probes) >= 2
    /\ \E i, j \in 1..Len(wordList) :
          LexLess(wordList[i], userWord) /\ LexLess(userWord, wordList[j])

\* C6: sort exits with failure exactly when the loaded list holds two
\* identical words, at any two positions of the load order.
C6_SortFailsIffDuplicate ==
    AfterSort =>
        ((pc = "exitInSort" /\ exitStatus = "EXIT_FAILURE") <=> HasDuplicate(loaded))

\* sort exited on a duplicate whose two copies were not neighbours in the
\* load order
C6_Witness ==
    /\ pc = "exitInSort"
    /\ Len(loaded) = 3
    /\ loaded[1] = loaded[3]
    /\ loaded[1] /= loaded[2]

\* C7: readWords succeeds exactly on the well-formed streams, and then the
\* list holds the records in stream order.
C7_LoadsExactlyWellFormed ==
    pc /= "readWords" =>
        /\ (pc /= "exitInReadWords") <=> WellFormed(stream)
        /\ (pc /= "exitInReadWords") => loaded = Records(stream)

\* C8: on a well-formed source readWords fails exactly when the source has
\* more than WORD_LIMIT records; the capacity starts at INITIAL_CAPACITY,
\* each step keeps it, doubles it or sets it to WORD_LIMIT, it never
\* exceeds WORD_LIMIT, and every word is written at an index below it.
C8_CapacityAndLimit ==
    /\ [](/\ capacity <= WORD_LIMIT
          /\ (recordsRead = 0 => capacity = INITIAL_CAPACITY)
          /\ (pc = "exitInReadWords" <=> recordsRead > WORD_LIMIT)
          /\ (pc = "loaded" => (wordListLen = recordsRead /\ recordsRead <= WORD_LIMIT)))
    /\ [][/\ capacity' \in {capacity, 2 * capacity, WORD_LIMIT}
          /\ (wordListLen' /= wordListLen => wordListLen < capacity')]_vars

\* a source of exactly WORD_LIMIT records has been loaded
C8_Witness ==
    /\ pc = "loaded"
    /\ recordsRead = WORD_LIMIT
    /\ wordListLen = WORD_LIMIT
    /\ capacity = WORD_LIMIT

\* C10: for a list of 1..WORD_LIMIT words and a seed of 0..LONG_MAX the
\* index of chooseWord is in 0..wordListLen-1 and the product stays within
\* a signed 64-bit integer; seed 0 gives index 0, and a list of one word
\* gives index 0 for every seed.
C10_IndexInRange ==
    pc = "chosen" =>
        /\ chosenIndex \in 0..(wordListLen - 1)
        /\ ~overflow
        /\ (seed = <<0>> => chosenIndex = 0)
        /\ (wordListLen = 1 => chosenIndex = 0)

\* the largest product: a list of WORD_LIMIT words and a seed whose
\* remainder is WORD_LIMIT - 1
C10_Witness ==
    /\ pc = "chosen"
    /\ wordListLen = WORD_LIMIT
    /\ seed = BigOf(WORD_LIMIT - 1)
    /\ chosenIndex > 0

(***************************************************************************)
(* The choice of the target, stated from the formula of the index.         *)
(***************************************************************************)
\* the value of a seed of one digit
SeedValue(sd) == sd[1]

\* (seed mod n) * 4611686018453 mod n, with the multiplier reduced first
FormulaIndex(sd, n) == ((SeedValue(sd) % n) * ModSmall(MULTIPLIER, n)) % n

\* the words of list in ascending order
SortedOf(list) ==
    CHOOSE s \in [1..Len(list) -> {list[i] : i \in 1..Len(list)}] :
        /\ IsPermutation(s, list)
        /\ \A i \in 1..(Len(list) - 1) : s[i] = s[i + 1] \/ LexLess(s[i], s[i + 1])

TargetChosen == pc \in {"sort", "exitInSort", "getGuess", "exitQuit", "exitSolved"}

\* C3 as claimed: the target is the word at the index of the formula in
\* the lexicon in ascending sorted order.
C3_TargetFromSortedLexicon ==
    (TargetChosen /\ ~IsNegative(seed)) =>
        targetWord = SortedOf(loaded)[FormulaIndex(seed, wordListLen) + 1]

\* C3: the target is the word at index (seed mod n) * 4611686018453 mod n
\* of the lexicon in the order of the word source (main calls chooseWord
\* before sort), so the same seed and the same sequence of words give the
\* same target.
C3_TargetFromLoadOrder ==
    (TargetChosen /\ ~IsNegative(seed)) =>
        /\ chosenIndex = FormulaIndex(seed, wordListLen)
        /\ targetWord = loaded[FormulaIndex(seed, wordListLen) + 1]

\* a game whose target is not the word the sorted list holds at the index
C3_Witness ==
    /\ pc = "getGuess"
    /\ ~IsNegative(seed)
    /\ wordList /= loaded
    /\ targetWord = loaded[chosenIndex + 1]
    /\ targetWord /= wordList[chosenIndex + 1]

InGame == pc \in {"getGuess", "exitQuit", "exitSolved"}

\* C9: a word source with a malformed record, too many records or a
\* duplicate word never reaches the game loop: the program has exited with
\* failure before the first guess is read; the loop is entered only after
\* load, sort and the duplicate check succeeded.
C9_NoPlayOnMalformedLexicon ==
    /\ (~WellFormed(stream) \/ RecordCount(stream) > WORD_LIMIT \/ HasDuplicate(loaded))
          => (~InGame /\ numValidGuesses = 0 /\ result = <<>> /\ probes = <<>>)
    /\ InGame => (StrictlyAscending(wordList) /\ IsPermutation(wordList, loaded))
    /\ pc \in {"exitInReadWords", "exitInSort"} => exitStatus = "EXIT_FAILURE"

(***************************************************************************)
(* Sorting a list that is already in order.                                *)
(***************************************************************************)
\* each word is before or equal to the next one
Ascending(list) ==
    \A i \in 1..(Len(list) - 1) : list[i] = list[i + 1] \/ LexLess(list[i], list[i + 1])

\* C11: mergeSort applied to a list that is already in ascending order
\* returns the same sequence, element for element; in particular sorting a
\* second time changes nothing.
C11_SortIdempotent ==
    /\ (pc \in {"sortedOnce", "sortedTwice"} /\ Ascending(loaded)) => wordList = loaded
    /\ pc = "sortedTwice" => wordList = loaded

\* a list of three distinct words, in order after the first call, has been
\* sorted a second time
C11_Witness ==
    /\ pc = "sortedTwice"
    /\ wordListLen = 3
    /\ StrictlyAscending(loaded)
    /\ wordList = loaded

(***************************************************************************)
(* The value of a string of decimal digits, four digits to a digit of base *)
(* LimbBase.                                                               *)
(***************************************************************************)
IsDigitString(str) ==
    /\ Len(str) >= 1
    /\ \A i \in 1..Len(str) : str[i] \in NUMBER_0..NUMBER_9

\* the decimal digit of weight 10^k of str, 0 above the first character
DigitAt(str, k) == IF k < Len(str) THEN str[Len(str) - k] - NUMBER_0 ELSE 0

DecimalValue(str) ==
    Normalize([j \in 1..((Len(str) + 3) \div 4) |->
                  DigitAt(str, 4 * j - 4) + 10 * DigitAt(str, 4 * j - 3)
                      + 100 * DigitAt(str, 4 * j - 2) + 1000 * DigitAt(str, 4 * j - 1)])

SeedParsed == pc \in {"chooseWord", "chosen", "exitUsage"}

\* C14: for every string of decimal digits, either its value fits a signed
\* 64-bit integer and the parsed seed is that value, or it does not fit and
\* getSeed exits with the usage error; the seed handed to chooseWord is
\* never negative and neither is the index computed from it.
C14_SeedNeverWraps ==
    (SeedParsed /\ IsDigitString(seedArg)) =>
        /\ LessEqBig(DecimalValue(seedArg), LONG_MAX)
              => (pc /= "exitUsage" /\ seed = DecimalValue(seedArg))
        /\ ~LessEqBig(DecimalValue(seedArg), LONG_MAX)
              => (pc = "exitUsage" /\ exitStatus = "EXIT_FAILURE")
        /\ pc /= "exitUsage" => ~IsNegative(seed)
        /\ pc = "chosen" => chosenIndex >= 0

(***************************************************************************)
(* The histogram of scores.txt: MAX_NUM_GUESSES numbers in decimal, a      *)
(* space after each but the last, a line feed after the last.              *)
(***************************************************************************)
RECURSIVE PowerOfTen(_)
PowerOfTen(e) == IF e = 0 THEN 1 ELSE 10 * PowerOfTen(e - 1)

\* the number of decimal digits of v
RECURSIVE NumDigits(_)
NumDigits(v) == IF v < 10 THEN 1 ELSE 1 + NumDigits(v \div 10)

Numeral(v) ==
    [i \in 1..NumDigits(v) |-> 48 + ((v \div PowerOfTen(NumDigits(v) - i)) % 10)]

RECURSIVE ScoresTextFrom(_, _)
ScoresTextFrom(h, i) ==
    IF i = Len(h) THEN Numeral(h[i]) \o <<LINE_FEED>>
    ELSE Numeral(h[i]) \o <<32>> \o ScoresTextFrom(h, i + 1)

ScoresText(h) == ScoresTextFrom(h, 1)

\* the file holds histogram h; no file stands for a histogram of zeros
Holds(file, h) ==
    IF file = None THEN h = [i \in 1..MAX_NUM_GUESSES |-> 0] ELSE file = ScoresText(h)

\* the bucket of a game solved in g guesses: g for 1..9, the last from 10 on
Bucket(g) == IF g >= MAX_NUM_GUESSES THEN MAX_NUM_GUESSES ELSE g

\* C12: a game solved in g valid guesses adds one to exactly one bucket of
\* the histogram in scores.txt (bucket g for g in 1..9, the last bucket for
\* g >= 10) and leaves the other buckets as they were; a round that does not
\* solve the game, "quit" and the end of the input included, leaves
\* scores.txt as it was.
C12_HistogramOnlyOnWin ==
    [][/\ pc' = "exitSolved" =>
             \E h \in SessionHistograms :
                /\ Holds(scoresFile, h)
                /\ numValidGuesses' >= 1
                /\ scoresFile' =
                      ScoresText([h EXCEPT ![Bucket(numValidGuesses')] = @ + 1])
       /\ pc' /= "exitSolved" => scoresFile' = scoresFile]_vars

\* a game solved in the eleventh guess has been added to the last bucket,
\* which held 18
C12_Witness ==
    /\ pc = "exitSolved"
    /\ numValidGuesses = MAX_NUM_GUESSES + 1
    /\ scoresFile = ScoresText([ScoresFrom(9, 1) EXCEPT ![MAX_NUM_GUESSES] = 19])

(***************************************************************************)
(* The rounds of the game, stated over the line the player entered.        *)
(***************************************************************************)
\* a line of the input: characters that end no line, then a line feed
EnteredLine(bytes) ==
    /\ Len(bytes) >= 1
    /\ bytes[Len(bytes)] = LINE_FEED
    /\ \A i \in 1..(Len(bytes) - 1) : bytes[i] \notin {LINE_FEED, CARRIAGE_RETURN, 255}

TextOf(bytes) == SubSeq(bytes, 1, Len(bytes) - 1)

IsWordShape(t) ==
    /\ Len(t) = WORD_LEN
    /\ \A i \in 1..Len(t) : t[i] \in LOWERCASE_A..LOWERCASE_Z

InLexicon(t) == \E i \in 1..Len(loaded) : loaded[i] = CStr(t)

\* C13: in a round of the game on an entered line other than "quit",
\* feedback is printed exactly when the line is WORD_LEN lowercase letters,
\* is in the lexicon and differs from the target; a line that is not a word
\* of the lexicon prints "Invalid guess" and leaves the guess counter as it
\* was; every line in the lexicon adds exactly one to the counter; "Solved"
\* is printed exactly when the line equals the target, with a count of at
\* least 1.
C13_RoundOutcomes ==
    [][(pc = "getGuess" /\ EnteredLine(stdinLine') /\ TextOf(stdinLine') /= SubSeq(QuitStr, 1, 4))
          => LET t == TextOf(stdinLine') IN
             /\ printed' = "feedback"
                   <=> (IsWordShape(t) /\ InLexicon(t) /\ CStr(t) /= targetWord)
             /\ ~(IsWordShape(t) /\ InLexicon(t))
                   => (printed' = "Invalid guess" /\ numValidGuesses' = numValidGuesses)
             /\ InLexicon(t) => numValidGuesses' = numValidGuesses + 1
             /\ printed' = "Solved" <=> CStr(t) = targetWord
             /\ printed' = "Solved" => numValidGuesses' >= 1]_vars

\* WORD_LEN lowercase letters and the terminator after them
WellFormedGuess(buf) ==
    /\ Len(buf) = WORD_LEN + 1
    /\ \A i \in 1..WORD_LEN : buf[i] \in LOWERCASE_A..LOWERCASE_Z
    /\ buf[WORD_LEN + 1] = NULL_TERMINATOR

\* C15: the guess buffer handed to inList, to the comparison with the
\* target and to processWord holds WORD_LEN lowercase letters at indices
\* 0..WORD_LEN-1 and the terminator at index WORD_LEN, in every round.
C15_GuessBufferWellFormed ==
    /\ (InGame /\ probes /= <<>>) => WellFormedGuess(userWord)
    /\ printed \in {"feedback", "Solved"} => WellFormedGuess(userWord)

====
